---- MODULE Spec2Model ----
(***************************************************************************)
(* State-machine model of the task orchestration core of MetaToolMaster    *)
(* (src/src/controllers.py): GeneralController.process_query and the       *)
(* methods it calls.  Every Oracle (LLM) call is a step whose answer is    *)
(* drawn nondeterministically from a small vocabulary of texts.            *)
(*                                                                         *)
(* Texts that the code inspects (lower(), strip(), `in`, ==, int()) are    *)
(* sequences of one-character strings, so those operations are computed.   *)
(* Domain names and subtask texts are only compared for equality and are   *)
(* plain strings.                                                          *)
(*                                                                         *)
(* Modelling assumptions:                                                  *)
(*  - the controller is constructed with the module-level registry, so     *)
(*    self.sub_controllers_registry and the global sub_controllers_registry*)
(*    are one object (variable sub_controllers_registry);                  *)
(*  - the registry handed to the constructor maps a domain to a list of    *)
(*    tool names ("ToolList") for which provider construction succeeds;    *)
(*  - max_feedback_loops is at least 1 (with 0 the loop body never runs    *)
(*    and `return result` reads an unbound local).                         *)
(***************************************************************************)
EXTENDS Integers, Sequences, FiniteSets, TLC

----------------------------------------------------------------------------
(* Bounds of the model *)

MaxLoops == 3

MaxLines == 2

MaxQueries == 2

MaxStores == 2

MaxTools == 2

----------------------------------------------------------------------------
(* Texts: str.lower(), str.strip(), substring test, int() *)

UpperChars == <<"A","B","C","D","E","F","G","H","I","J","K","L","M",
                "N","O","P","Q","R","S","T","U","V","W","X","Y","Z">>

LowerChars == <<"a","b","c","d","e","f","g","h","i","j","k","l","m",
                "n","o","p","q","r","s","t","u","v","w","x","y","z">>

Whitespace == {" ", "\n", "\t"}

DigitChars == <<"0","1","2","3","4","5","6","7","8","9">>

LowerChar(c) ==
    IF \E i \in 1..26 : UpperChars[i] = c
    THEN LowerChars[CHOOSE i \in 1..26 : UpperChars[i] = c]
    ELSE c

Lower(s) == [i \in 1..Len(s) |-> LowerChar(s[i])]

Strip(s) ==
    LET keep == {i \in 1..Len(s) : s[i] \notin Whitespace}
    IN  IF keep = {} THEN <<>>
        ELSE LET lo == CHOOSE i \in keep : \A j \in keep : i <= j
                 hi == CHOOSE i \in keep : \A j \in keep : j <= i
             IN  SubSeq(s, lo, hi)

Contains(s, needle) ==
    \E i \in 0..(Len(s) - Len(needle)) : SubSeq(s, i + 1, i + Len(needle)) = needle

IsDigit(c) == \E i \in 1..10 : DigitChars[i] = c

DigitValue(c) == (CHOOSE i \in 1..10 : DigitChars[i] = c) - 1

RECURSIVE DigitsValue(_)
DigitsValue(s) ==
    IF s = <<>> THEN 0
    ELSE 10 * DigitsValue(SubSeq(s, 1, Len(s) - 1)) + DigitValue(s[Len(s)])

\* int(text): surrounding whitespace is ignored, one optional sign, then digits only.
IntBody(s) ==
    LET t == Strip(s)
    IN  IF t # <<>> /\ t[1] \in {"+", "-"} THEN Tail(t) ELSE t

IntParses(s) ==
    /\ IntBody(s) # <<>>
    /\ \A i \in 1..Len(IntBody(s)) : IsDigit(IntBody(s)[i])

IntValue(s) ==
    LET t == Strip(s)
    IN  IF t[1] = "-" THEN 0 - DigitsValue(IntBody(s)) ELSE DigitsValue(IntBody(s))

----------------------------------------------------------------------------
(* Literals of the source *)

TrueText == <<"t","r","u","e">>

ConvergedText == <<"c","o","n","v","e","r","g","e","d">>

SuccessText == <<"s","u","c","c","e","s","s">>

UnknownRoleSentinel ==
    <<"E","r","r","o","r",":"," ","U","n","k","n","o","w","n"," ","r","o","l","e">>

UnknownRoleReturn == UnknownRoleSentinel \o <<".">>

ScoreThreshold == 8

----------------------------------------------------------------------------
(* Python dict with insertion order: a sequence of <<key, value>> pairs *)

DictHas(d, k) == \E i \in 1..Len(d) : d[i][1] = k

DictGet(d, k) == d[CHOOSE i \in 1..Len(d) : d[i][1] = k][2]

DictSet(d, k, v) ==
    IF DictHas(d, k)
    THEN [i \in 1..Len(d) |-> IF d[i][1] = k THEN <<k, v>> ELSE d[i]]
    ELSE Append(d, <<k, v>>)

DictKeys(d) == {d[i][1] : i \in 1..Len(d)}

\* A dict whose order is never observed: a function on its key set.
MapSet(m, k, v) == [x \in (DOMAIN m) \cup {k} |-> IF x = k THEN v ELSE m[x]]

----------------------------------------------------------------------------
(* Vocabularies of the Oracle's answers *)

RoleNames == {"General", "Weather", "Translation"}

RecordRoles == {"Weather", "Translation"}

ScoreTexts == {<<"0">>, <<"7">>, <<"8">>, <<"1","0">>, <<" ","9">>}

BadScoreTexts == {<<"x">>, <<"8",".","5">>}

\* A line of the decomposition answer, as the list of its pieces between the
\* separators ': ' (so "Weather: 9: a: b" is <<"Weather", <<"9">>, "a", "b">>).
WellFormedLines ==
    {<<r, s, "t1">> : r \in RecordRoles, s \in ScoreTexts}
        \cup {<<"Weather", <<"8">>, "t2">>, <<"Translation", <<"7">>, "t2">>,
              <<"Weather", <<"0">>, "t2">>, <<"Translation", <<"1","0">>, "t2", "more">>}

MalformedLines ==
    {<<"NotEnoughFields">>, <<"Weather", <<"9">>>>}
        \cup {<<"Weather", s, "t1">> : s \in BadScoreTexts}

Lines == WellFormedLines \cup MalformedLines

RECURSIVE SeqsUpTo(_, _)
SeqsUpTo(S, n) ==
    IF n = 0 THEN {<<>>}
    ELSE LET shorter == SeqsUpTo(S, n - 1)
         IN  shorter \cup {Append(q, x) : q \in shorter, x \in S}

Responses == SeqsUpTo(Lines, MaxLines)

\* The decomposition answers whole queries are run on.
QueryResponses ==
    {<< <<"Weather", <<" ","9">>, "t1">>, <<"Translation", <<"8">>, "t2">> >>,
     << <<"Weather", <<"1","0">>, "t1">>, <<"Translation", <<"7">>, "t2">> >>,
     << <<"Weather", <<"8">>, "t1">>, <<"NotEnoughFields">> >>}

ResultRaw == {<<"o","k">>, <<"o","k","\n">>, <<"S","u","c","c","e","s","s">>,
              UnknownRoleSentinel}

VerdictRaw == {<<"T","r","u","e">>, <<" ","t","r","u","e">>, <<"F","a","l","s","e">>,
               <<"t","r","u","e",".">>}

FeedbackRaw == {<<"m","o","r","e">>, <<"c","o","n","v","e","r","g","e">>,
                <<"C","o","n","v","e","r","g","e","d","!">>, <<" ","c","o","n","v","e","r","g","e","d">>}

CreationRaw == {<<"1">>, <<"0">>, <<>>, <<" ">>}

AnswerRaw == {<<"a","n","s","w","e","r">>, <<" ","a","n","s","w","e","r">>}

----------------------------------------------------------------------------
(* State *)

VARIABLES
    sub_controllers_registry,  \* persistent registry: domain -> descriptor
    task_sub_controllers,      \* working copy made in __init__
    task_status_board,         \* role -> status
    max_feedback_loops,
    pc,                        \* position of process_query
    error,                     \* exception that left process_query, or "none"
    queries,                   \* process_query calls made so far
    response,                  \* decomposition answer under SpecDecompose
    tasks,                     \* process_query: tasks (ordered dict)
    idx,                       \* position of `for role, task in tasks.items()`
    responses,                 \* process_query: responses (ordered dict)
    final_response,            \* value of the last return of process_query
    site,                      \* which call of execute_with_feedback is running
    role,                      \* execute_with_feedback: role
    task,                      \* execute_with_feedback: task
    feedback_list,             \* execute_with_feedback: feedback_list
    result,                    \* execute_with_feedback: result
    iter,                      \* iterations of `for _ in range(...)` started
    handle_calls,              \* calls of sc.handle_task in this execution
    verdict,                   \* last answer verify_result got from llm_query
    ret,                       \* value execute_with_feedback returned
    plugins,                   \* self.plugins: the names registered
    llm_attempts,              \* Completion.create calls made by the Oracle call that raised
    failed_call,               \* the method whose Oracle call raised, or "none"
    promoters,                 \* concurrent runs of store_persistent_data (SpecPromote)
    tools_data,                \* populate_registries: the file's content (SpecLoad)
    loaded                     \* populate_registries: what it returned (SpecLoad)

persistent == <<sub_controllers_registry, task_sub_controllers>>

execVars == <<site, role, task, feedback_list, result, iter, handle_calls, verdict, ret>>

queryVars == <<tasks, idx, responses>>

\* What belongs to no query.
outside == <<max_feedback_loops, plugins, promoters, tools_data, loaded>>

outside_promoters == <<max_feedback_loops, plugins, llm_attempts, failed_call,
                       tools_data, loaded>>

\* What no step of a running query writes.
untouched == <<max_feedback_loops, plugins, llm_attempts, failed_call, promoters,
               tools_data, loaded>>

vars == <<sub_controllers_registry, task_sub_controllers, task_status_board,
          max_feedback_loops, pc, error, queries, response, tasks, idx, responses,
          final_response, site, role, task, feedback_list, result, iter,
          handle_calls, verdict, ret, plugins, llm_attempts, failed_call, promoters,
          tools_data, loaded>>

ToolList == "ToolList"

Pending == "Pending"

Completed == "Completed"

FailedToConverge == "Failed to Converge"

EmptyMap == [x \in {} |-> x]

\* llm_query: the Oracle's text, stripped.
llm_query(raw) == Strip(raw)

\* SubController.handle_task / GeneralSubController.handle_task: the Oracle's text, stripped.
handle_task(raw) == Strip(raw)

----------------------------------------------------------------------------
(* decompose_query *)

\* Mutant: the threshold taken as exclusive.
ThresholdMetExclusive(score) == score > ScoreThreshold

ThresholdMet(score) == score >= ScoreThreshold

\* The key a record is filed under.
BindRole(r, score) == IF ThresholdMet(score) THEN r ELSE "General"

\* `role, score, task = line.split(': ', 2)` unpacks, and int(score) parses.
LineParses(line) == Len(line) >= 3 /\ IntParses(line[2])

\* The third part of split(': ', 2): everything after the second separator.
LineTask(line) == SubSeq(line, 3, Len(line))

FileRecord(acc, line) ==
    DictSet(acc, BindRole(line[1], IntValue(line[2])), LineTask(line))

\* The loop over response.splitlines(): [ok |-> no exception, tasks |-> the dict].
RECURSIVE ParseLines(_, _)
ParseLines(lines, acc) ==
    IF lines = <<>> THEN [ok |-> TRUE, tasks |-> acc]
    ELSE IF ~LineParses(Head(lines)) THEN [ok |-> FALSE, tasks |-> acc]
    ELSE ParseLines(Tail(lines), FileRecord(acc, Head(lines)))

decompose_query(resp) == ParseLines(resp, <<>>)

MarkPending(board, keys) ==
    [x \in (DOMAIN board) \cup keys |-> IF x \in keys THEN Pending ELSE board[x]]

ResetExec ==
    /\ site' = "none" /\ role' = "none" /\ task' = <<>>
    /\ feedback_list' = <<>> /\ result' = <<>> /\ iter' = 0
    /\ handle_calls' = 0 /\ verdict' = <<>> /\ ret' = <<>>

\* process_query up to the return of decompose_query (lines 70-73, 133-159).
DecomposeStep(resp) ==
    LET parsed == decompose_query(resp)
    IN  /\ pc \in {"idle", "raised"}
        /\ queries < MaxQueries
        /\ queries' = queries + 1
        /\ IF parsed.ok
           THEN /\ tasks' = parsed.tasks
                /\ task_status_board' = MarkPending(task_status_board, DictKeys(parsed.tasks))
                /\ pc' = "route"
                /\ error' = "none"
           ELSE /\ tasks' = <<>>
                /\ task_status_board' = task_status_board
                /\ pc' = "raised"
                /\ error' = "ValueError"
        /\ idx' = 1
        /\ responses' = <<>>
        /\ final_response' = <<>>
        /\ ResetExec
        /\ llm_attempts' = 0
        /\ failed_call' = "none"
        /\ UNCHANGED <<persistent, outside>>

ProcessQuery ==
    /\ \E resp \in QueryResponses : DecomposeStep(resp)
    /\ UNCHANGED response

----------------------------------------------------------------------------
(* execute_with_feedback *)

\* initialize_sc builds the tool list by iterating the registry entry: a list of
\* tool names works; the descriptor string written by create_new_sc is iterated
\* character by character and self.task_tools[<char>] raises KeyError.
InitializeScOk(r) == sub_controllers_registry[r] = ToolList

\* Lines 161-174: pick the provider and enter the loop.
ExecEnter(r, t, s) ==
    /\ site' = s /\ role' = r /\ task' = t
    /\ feedback_list' = <<>> /\ result' = <<>> /\ iter' = 0
    /\ handle_calls' = 0 /\ verdict' = <<>>
    /\ IF r = "General"
       THEN pc' = "handle" /\ ret' = <<>> /\ error' = error
       ELSE IF r \in DOMAIN sub_controllers_registry
       THEN IF InitializeScOk(r)
            THEN pc' = "handle" /\ ret' = <<>> /\ error' = error
            ELSE pc' = "raised" /\ ret' = <<>> /\ error' = "KeyError"
       ELSE pc' = "exec_return" /\ ret' = UnknownRoleReturn /\ error' = error

\* Mutant: one iteration too many.
LoopHasNextOffByOne(n) == n <= max_feedback_loops

\* `for _ in range(self.max_feedback_loops)`: is there another iteration?
LoopHasNext(n) == n < max_feedback_loops

\* Mutant: the verdict compared without lower().
VerifyPassCaseSensitive(text) == text = TrueText

\* verify_result: verification_response.lower() == "true"
VerifyPass(text) == Lower(text) = TrueText

\* Mutant: the sentinel searched without lower().
SentinelSeenCaseSensitive(feedback) == Contains(feedback, ConvergedText)

\* `"converged" in feedback.lower()`
SentinelSeen(feedback) == Contains(Lower(feedback), ConvergedText)

\* Line 175: result = sc.handle_task(task, feedback=feedback_list)
HandleTask ==
    /\ pc = "handle"
    /\ \E raw \in ResultRaw : result' = handle_task(raw)
    /\ iter' = iter + 1
    /\ handle_calls' = handle_calls + 1
    /\ pc' = "verify"
    /\ UNCHANGED <<persistent, task_status_board, untouched, error, queries,
                   response, queryVars, final_response, site, role, task,
                   feedback_list, verdict, ret>>

\* Lines 176-178: the verifier's verdict; on pass mark Completed and return.
VerifyResult ==
    /\ pc = "verify"
    /\ \E raw \in VerdictRaw :
         /\ verdict' = llm_query(raw)
         /\ IF VerifyPass(llm_query(raw))
            THEN /\ task_status_board' = MapSet(task_status_board, role, Completed)
                 /\ ret' = result
                 /\ pc' = "exec_return"
            ELSE /\ pc' = "feedback"
                 /\ UNCHANGED <<task_status_board, ret>>
    /\ UNCHANGED <<persistent, untouched, error, queries, response, queryVars,
                   final_response, site, role, task, feedback_list, result, iter,
                   handle_calls>>

\* Lines 180-187: feedback is appended; the sentinel or the end of the range
\* leaves the loop, marks Failed to Converge and returns the last result.
GenerateFeedback ==
    /\ pc = "feedback"
    /\ \E raw \in FeedbackRaw :
         LET feedback == llm_query(raw)
         IN  /\ feedback_list' = Append(feedback_list, feedback)
             /\ verdict' = <<>>
             /\ IF SentinelSeen(feedback) \/ ~LoopHasNext(iter)
                THEN /\ task_status_board' = MapSet(task_status_board, role, FailedToConverge)
                     /\ ret' = result
                     /\ pc' = "exec_return"
                ELSE /\ pc' = "handle"
                     /\ UNCHANGED <<task_status_board, ret>>
    /\ UNCHANGED <<persistent, untouched, error, queries, response, queryVars,
                   final_response, site, role, task, result, iter, handle_calls>>

----------------------------------------------------------------------------
(* process_query: the loop over tasks.items() *)

CurRole == tasks[idx][1]

CurTask == tasks[idx][2]

loopFrame == <<persistent, task_status_board, untouched, queries, response,
               final_response>>

\* Line 76 with the dict exhausted: go on to aggregation.
RouteDone ==
    /\ pc = "route"
    /\ idx > Len(tasks)
    /\ pc' = "aggregate"
    /\ UNCHANGED <<loopFrame, error, queryVars, execVars>>

\* Lines 77-78: the role is a key of the registry.
RouteKnown ==
    /\ pc = "route"
    /\ idx <= Len(tasks)
    /\ CurRole \in DOMAIN sub_controllers_registry
    /\ ExecEnter(CurRole, CurTask, "direct")
    /\ UNCHANGED <<loopFrame, queryVars>>

\* Lines 79-81: otherwise the General Sub-Controller goes first.
RouteGeneral ==
    /\ pc = "route"
    /\ idx <= Len(tasks)
    /\ CurRole \notin DOMAIN sub_controllers_registry
    /\ ExecEnter("General", CurTask, "gsc")
    /\ UNCHANGED <<loopFrame, queryVars>>

\* Record a response and move to the next item of tasks.items().
Record(key, value) ==
    /\ responses' = DictSet(responses, key, value)
    /\ idx' = idx + 1
    /\ tasks' = tasks
    /\ pc' = "route"

\* Line 82: gsc_response == "Error: Unknown role"
IsUnknownRole(text) == text = UnknownRoleSentinel

\* Line 78: responses[role] = <return value>
ReturnDirect ==
    /\ pc = "exec_return"
    /\ site = "direct"
    /\ Record(CurRole, ret)
    /\ ResetExec
    /\ UNCHANGED <<loopFrame, error>>

\* Lines 82 and 95-96: the answer of the General Sub-Controller.
ReturnGsc ==
    /\ pc = "exec_return"
    /\ site = "gsc"
    /\ IF IsUnknownRole(ret)
       THEN pc' = "verify_creation" /\ UNCHANGED queryVars
       ELSE Record(CurRole, ret)
    /\ ResetExec
    /\ UNCHANGED <<loopFrame, error>>

\* Line 91: responses[reassigned_role] = <return value>
ReturnReassigned ==
    /\ pc = "exec_return"
    /\ site = "reassigned"
    /\ Record(role, ret)
    /\ ResetExec
    /\ UNCHANGED <<loopFrame, error>>

\* Line 94: responses["General"] = <return value>
ReturnFallback ==
    /\ pc = "exec_return"
    /\ site = "fallback"
    /\ Record("General", ret)
    /\ ResetExec
    /\ UNCHANGED <<loopFrame, error>>

\* `if create_new_role:` on the string verify_creation returns.
Truthy(text) == text # <<>>

\* Lines 84-85 and 103-112.
VerifyCreation ==
    /\ pc = "verify_creation"
    /\ \E raw \in CreationRaw :
         pc' = IF Truthy(llm_query(raw)) THEN "create" ELSE "reassign"
    /\ UNCHANGED <<loopFrame, error, queryVars, execVars>>

DynamicDescriptor == "Handles domain"

\* DynamicSubController.handle_task: the provider's text.
dynamic_handle_task(raw) == Strip(raw)

\* Mutant: the working copy being the registry itself (no .copy() at line 64).
CreateNewScAliased ==
    /\ pc = "create"
    /\ task_sub_controllers' = MapSet(task_sub_controllers, CurRole, DynamicDescriptor)
    /\ sub_controllers_registry' = MapSet(sub_controllers_registry, CurRole, DynamicDescriptor)
    /\ \E raw \in ResultRaw : Record(CurRole, dynamic_handle_task(raw))
    /\ UNCHANGED <<task_status_board, untouched, queries, response, final_response,
                   error, execVars>>

\* Lines 86 and 211-220: the working copy gets the role, the new provider's
\* answer is recorded unverified.
CreateNewSc ==
    /\ pc = "create"
    /\ task_sub_controllers' = MapSet(task_sub_controllers, CurRole, DynamicDescriptor)
    /\ \E raw \in ResultRaw : Record(CurRole, dynamic_handle_task(raw))
    /\ UNCHANGED <<sub_controllers_registry, task_status_board, untouched,
                   queries, response, final_response, error, execVars>>

ReassignAnswers == RoleNames \cup {"Nowhere"}

\* Lines 123-126: the suggested role, or None.
reassign_task(suggested) ==
    IF suggested \in DOMAIN sub_controllers_registry THEN suggested ELSE "None"

\* Lines 89-94.
ReassignTask ==
    /\ pc = "reassign"
    /\ \E answer \in ReassignAnswers :
         LET reassigned_role == reassign_task(answer)
         IN  IF reassigned_role # "None"
             THEN ExecEnter(reassigned_role, CurTask, "reassigned")
             ELSE ExecEnter("General", CurTask, "fallback")
    /\ UNCHANGED <<loopFrame, queryVars>>

----------------------------------------------------------------------------
(* aggregate_responses and store_persistent_data *)

\* `"success" in response.lower()`
HasSuccessMarker(text) == Contains(Lower(text), SuccessText)

\* Mutant: the promotion written without the `not in` test.
RECURSIVE StoreLoopOverwrite(_, _)
StoreLoopOverwrite(items, registry) ==
    IF items = <<>> THEN [ok |-> TRUE, registry |-> registry]
    ELSE LET r == Head(items)[1]
             text == Head(items)[2]
         IN  IF HasSuccessMarker(text)
             THEN IF r \in DOMAIN task_sub_controllers
                  THEN StoreLoopOverwrite(Tail(items),
                                          MapSet(registry, r, task_sub_controllers[r]))
                  ELSE [ok |-> FALSE, registry |-> registry]
             ELSE StoreLoopOverwrite(Tail(items), registry)

\* Lines 224-227 over the remaining items: [ok |-> no KeyError, registry |-> ...].
RECURSIVE StoreLoop(_, _)
StoreLoop(items, registry) ==
    IF items = <<>> THEN [ok |-> TRUE, registry |-> registry]
    ELSE LET r == Head(items)[1]
             text == Head(items)[2]
         IN  IF HasSuccessMarker(text) /\ r \notin DOMAIN registry
             THEN IF r \in DOMAIN task_sub_controllers
                  THEN StoreLoop(Tail(items), MapSet(registry, r, task_sub_controllers[r]))
                  ELSE [ok |-> FALSE, registry |-> registry]
             ELSE StoreLoop(Tail(items), registry)

store_persistent_data(resps) == StoreLoop(resps, sub_controllers_registry)

\* Lines 99-101.
Aggregate ==
    /\ pc = "aggregate"
    /\ LET stored == store_persistent_data(responses)
       IN  /\ sub_controllers_registry' = stored.registry
           /\ IF stored.ok
              THEN /\ \E raw \in AnswerRaw : final_response' = llm_query(raw)
                   /\ pc' = "idle"
                   /\ error' = error
                   /\ tasks' = <<>> /\ idx' = 1 /\ responses' = <<>>
                   /\ ResetExec
              ELSE /\ pc' = "raised"
                   /\ error' = "KeyError"
                   /\ UNCHANGED <<final_response, queryVars, execVars>>
    /\ UNCHANGED <<task_sub_controllers, task_status_board, untouched, queries,
                   response>>

----------------------------------------------------------------------------
(* Specifications *)

InitialRegistries == {{"Weather"}, {"General", "Weather"}}

InitCommon ==
    /\ sub_controllers_registry \in {[d \in S |-> ToolList] : S \in InitialRegistries}
    /\ task_sub_controllers = sub_controllers_registry
    /\ task_status_board = EmptyMap
    /\ max_feedback_loops \in 1..MaxLoops
    /\ pc = "idle"
    /\ error = "none"
    /\ queries = 0
    /\ tasks = <<>> /\ idx = 1 /\ responses = <<>>
    /\ final_response = <<>>
    /\ site = "none" /\ role = "none" /\ task = <<>>
    /\ feedback_list = <<>> /\ result = <<>> /\ iter = 0
    /\ handle_calls = 0 /\ verdict = <<>> /\ ret = <<>>
    /\ plugins = {}
    /\ llm_attempts = 0
    /\ failed_call = "none"

NotLoading == tools_data = <<>> /\ loaded = <<>>

NotPromoting == promoters = <<>>

Init == InitCommon /\ response = <<>> /\ NotPromoting /\ NotLoading

Next ==
    \/ ProcessQuery
    \/ RouteDone
    \/ RouteKnown
    \/ RouteGeneral
    \/ HandleTask
    \/ VerifyResult
    \/ GenerateFeedback
    \/ ReturnDirect
    \/ ReturnGsc
    \/ ReturnReassigned
    \/ ReturnFallback
    \/ VerifyCreation
    \/ CreateNewSc
    \/ ReassignTask
    \/ Aggregate

Spec == Init /\ [][Next]_vars

\* decompose_query alone, on an Oracle answer fixed in the initial state.
InitDecompose == InitCommon /\ response \in Responses /\ NotPromoting /\ NotLoading

DecomposeQuery == DecomposeStep(response) /\ UNCHANGED response

NextDecompose == DecomposeQuery

SpecDecompose == InitDecompose /\ [][NextDecompose]_vars

----------------------------------------------------------------------------
(* The Oracle failing: xlam_cpp.Completion.create raises.  llm_query (lines     *)
(* 239-247) and the providers' handle_task (lines 296-301, 333-338) make the   *)
(* call once, outside any try, and no caller up to process_query has a handler, *)
(* so the library's exception leaves process_query as it was raised.           *)

\* The exceptions of the client library: a transport failure, a service error.
TransportError == "TimeoutError"

ServiceError == "ServiceError"

OracleFailures == {TransportError, ServiceError}

\* The method whose Oracle call is pending at each position of process_query.
PendingCall ==
    [handle |-> "handle_task", verify |-> "verify_result",
     feedback |-> "generate_feedback", verify_creation |-> "verify_creation",
     create |-> "create_new_sc", reassign |-> "reassign_task",
     aggregate |-> "aggregate_responses"]

\* One call of Completion.create raising e inside `method`.
LlmQueryRaises(method, e) ==
    /\ llm_attempts' = 1
    /\ failed_call' = method
    /\ error' = e
    /\ pc' = "raised"
    /\ UNCHANGED outside

\* Line 144 raising: process_query ends in decompose_query.
DecomposeRaises ==
    /\ pc \in {"idle", "raised"}
    /\ queries < MaxQueries
    /\ queries' = queries + 1
    /\ \E e \in OracleFailures : LlmQueryRaises("decompose_query", e)
    /\ tasks' = <<>> /\ idx' = 1 /\ responses' = <<>>
    /\ final_response' = <<>>
    /\ ResetExec
    /\ UNCHANGED <<persistent, task_status_board, response>>

\* Any later Oracle call of the query raising: the frames unwind, the locals go.
NestedRaises ==
    /\ pc \in DOMAIN PendingCall
    /\ \E e \in OracleFailures : LlmQueryRaises(PendingCall[pc], e)
    /\ tasks' = <<>> /\ idx' = 1 /\ responses' = <<>>
    /\ ResetExec
    /\ UNCHANGED <<persistent, task_status_board, queries, response, final_response>>

NextOracle == Next \/ DecomposeRaises \/ NestedRaises

SpecOracle == Init /\ [][NextOracle]_vars

----------------------------------------------------------------------------
(* register_plugin (lines 128-131) between queries *)

PluginNames == {"Translation"}

\* self.plugins[plugin_name] = plugin_instance
RegisterPlugin ==
    /\ pc \in {"idle", "raised"}
    /\ \E plugin_name \in PluginNames : plugins' = plugins \cup {plugin_name}
    /\ plugins' # plugins
    /\ UNCHANGED <<persistent, task_status_board, max_feedback_loops, pc, error,
                   queries, response, queryVars, final_response, execVars,
                   llm_attempts, failed_call, promoters, tools_data, loaded>>

NextPlugins == Next \/ RegisterPlugin

SpecPlugins == Init /\ [][NextPlugins]_vars

\* Neither a query nor a run of execute_with_feedback is in progress.
NoQuery ==
    /\ task_status_board = EmptyMap
    /\ max_feedback_loops = 3
    /\ error = "none"
    /\ response = <<>>
    /\ tasks = <<>> /\ idx = 1
    /\ final_response = <<>>
    /\ site = "none" /\ role = "none" /\ task = <<>>
    /\ feedback_list = <<>> /\ result = <<>> /\ iter = 0
    /\ handle_calls = 0 /\ verdict = <<>> /\ ret = <<>>
    /\ plugins = {}
    /\ llm_attempts = 0
    /\ failed_call = "none"

queryState == <<task_status_board, error, response, tasks, idx, final_response, execVars>>

----------------------------------------------------------------------------
(* store_persistent_data alone: called, and called again, on given per-domain     *)
(* results.  The registry it writes is the module-level one; the working copy   *)
(* is the controller's, and the two differ when the controller was built with   *)
(* a registry of its own or has synthesized providers.                          *)

StoreRoles == {"Weather", "Translation"}

Descriptors == {ToolList, DynamicDescriptor}

RegistriesOver(roles) == UNION {[S -> Descriptors] : S \in SUBSET roles}

StoreResults == {<<"o","k">>, <<"S","u","c","c","e","s","s">>}

\* Ordered dicts over the roles: no key twice.
StoreResponses ==
    {<<>>}
      \cup {<< <<r, v>> >> : r \in StoreRoles, v \in StoreResults}
      \cup {d \in {<< <<r1, v1>>, <<r2, v2>> >> :
                      r1 \in StoreRoles, r2 \in StoreRoles,
                      v1 \in StoreResults, v2 \in StoreResults} : d[1][1] # d[2][1]}

InitStore ==
    /\ sub_controllers_registry \in RegistriesOver(StoreRoles)
    /\ task_sub_controllers \in RegistriesOver(StoreRoles)
    /\ responses \in StoreResponses
    /\ pc = "store"
    /\ queries = 0
    /\ NoQuery /\ NotPromoting /\ NotLoading

\* Line 100, and the same call made again.
StorePersistentData ==
    /\ pc \in {"store", "stored", "store_raised"}
    /\ queries < MaxStores
    /\ queries' = queries + 1
    /\ LET stored == store_persistent_data(responses)
       IN  /\ sub_controllers_registry' = stored.registry
           /\ pc' = IF stored.ok THEN "stored" ELSE "store_raised"
    /\ UNCHANGED <<task_sub_controllers, responses, queryState, untouched>>

NextStore == StorePersistentData

SpecStore == InitStore /\ [][NextStore]_vars

----------------------------------------------------------------------------
(* store_persistent_data run by two queries at once on the shared module-level   *)
(* registry.  Nothing in lines 222-227 takes a lock, so the membership test of  *)
(* line 226 and the assignment of line 227 are separate steps of each thread    *)
(* and any interleaving of the two threads' steps is possible.                  *)

Promoters == {1, 2}

\* What each query hands to store_persistent_data.
PromoteResponses ==
    {<< <<"Translation", <<"S","u","c","c","e","s","s">> >> >>,
     << <<"Weather", <<"S","u","c","c","e","s","s">> >>,
        <<"Translation", <<"S","u","c","c","e","s","s">> >> >>,
     << <<"Translation", <<"o","k">> >>, <<"Weather", <<"S","u","c","c","e","s","s">> >> >>}

\* The working copy of a controller that has synthesized Translation.
SynthesizedCopy == [Weather |-> ToolList, Translation |-> DynamicDescriptor]

\* A thread at the head of `for role, response in responses.items()`.
PromoterAt(items, i) ==
    [pc |-> IF i > Len(items) THEN "done" ELSE "check", i |-> i, items |-> items,
     working |-> SynthesizedCopy]

InitPromote ==
    /\ sub_controllers_registry \in RegistriesOver(StoreRoles)
    /\ task_sub_controllers = SynthesizedCopy
    /\ promoters \in {<<PromoterAt(a, 1), PromoterAt(b, 1)>> :
                         a \in PromoteResponses, b \in PromoteResponses}
    /\ responses = <<>>
    /\ pc = "promote"
    /\ queries = 0
    /\ NoQuery /\ NotLoading

promoteFrame == <<task_sub_controllers, responses, pc, queries, queryState, outside_promoters>>

\* Lines 225-226 for the current item: both tests, no write.
PromoteCheck(t) ==
    LET p == promoters[t]
        r == p.items[p.i][1]
        text == p.items[p.i][2]
    IN  /\ p.pc = "check"
        /\ IF HasSuccessMarker(text) /\ r \notin DOMAIN sub_controllers_registry
           THEN promoters' = [promoters EXCEPT ![t].pc = "insert"]
           ELSE promoters' = [promoters EXCEPT ![t] = PromoterAt(p.items, p.i + 1)]
        /\ UNCHANGED <<sub_controllers_registry, promoteFrame>>

\* Line 227 for the current item: the write, whatever the registry holds by now.
PromoteInsert(t) ==
    LET p == promoters[t]
        r == p.items[p.i][1]
    IN  /\ p.pc = "insert"
        /\ IF r \in DOMAIN p.working
           THEN /\ sub_controllers_registry' =
                      MapSet(sub_controllers_registry, r, p.working[r])
                /\ promoters' = [promoters EXCEPT ![t] = PromoterAt(p.items, p.i + 1)]
           ELSE /\ promoters' = [promoters EXCEPT ![t].pc = "raised"]
                /\ UNCHANGED sub_controllers_registry
        /\ UNCHANGED promoteFrame

NextPromote == \E t \in Promoters : PromoteCheck(t) \/ PromoteInsert(t)

SpecPromote == InitPromote /\ [][NextPromote]_vars

----------------------------------------------------------------------------
(* populate_registries (lines 7-43) and the module-level assignment of line 45 *)

\* Records of the tools file, as the dicts json.load yields; a key may be absent.
ToolRecords ==
    {[name |-> "t1", description |-> "d1", parameters |-> "p1", domain |-> "Weather"],
     [name |-> "t2", description |-> "d2", parameters |-> "p2", domain |-> "Other"],
     [name |-> "t3", description |-> "d3", parameters |-> "p3"],
     [name |-> "t4", description |-> "d4", parameters |-> "p4", domain |-> "Translation"],
     [description |-> "d5", parameters |-> "p5", domain |-> "Weather"],
     [name |-> "t6", parameters |-> "p6", domain |-> "Weather"],
     [name |-> "t7", description |-> "d7", domain |-> "Weather"],
     [name |-> "t8", description |-> "d8"]}

NothingLoaded == [failed |-> FALSE, toolset |-> EmptyMap, registry |-> EmptyMap]

\* tool.get("domain", "Other")
ToolDomain(tool) == IF "domain" \in DOMAIN tool THEN tool.domain ELSE "Other"

\* The key of sub_controllers_registry the tool is appended under (lines 25-38).
FiledUnder(tool) == IF ToolDomain(tool) = "Other" THEN "General" ELSE ToolDomain(tool)

\* tool["name"], tool["description"], tool["parameters"] all succeed.
ToolComplete(tool) == {"name", "description", "parameters"} \subseteq DOMAIN tool

\* defaultdict(list): a missing key reads as the empty list.
ListAt(registry, d) == IF d \in DOMAIN registry THEN registry[d] ELSE <<>>

\* Lines 20-38 over the remaining records; a KeyError leaves the loop for the
\* handler of line 40 with both dicts as filled so far.
RECURSIVE LoadTools(_, _, _)
LoadTools(tools, toolset, registry) ==
    IF tools = <<>> THEN [failed |-> FALSE, toolset |-> toolset, registry |-> registry]
    ELSE LET tool == Head(tools)
         IN  IF ~ToolComplete(tool)
             THEN [failed |-> TRUE, toolset |-> toolset, registry |-> registry]
             ELSE LoadTools(Tail(tools),
                            MapSet(toolset, tool.name,
                                   [description |-> tool.description,
                                    parameters |-> tool.parameters,
                                    domain |-> FiledUnder(tool)]),
                            MapSet(registry, FiledUnder(tool),
                                   Append(ListAt(registry, FiledUnder(tool)), tool)))

\* Lines 11-43: open() or json.load raising is caught with both dicts empty.
populate_registries(file) ==
    IF file.readable THEN LoadTools(file.tools, EmptyMap, EmptyMap)
    ELSE [failed |-> TRUE, toolset |-> EmptyMap, registry |-> EmptyMap]

InitLoad ==
    /\ tools_data \in [readable : BOOLEAN, tools : SeqsUpTo(ToolRecords, MaxTools)]
    /\ loaded = NothingLoaded
    /\ sub_controllers_registry = EmptyMap
    /\ task_sub_controllers = EmptyMap
    /\ responses = <<>>
    /\ pc = "load"
    /\ queries = 0
    /\ NoQuery /\ NotPromoting

\* Line 45: the module-level registry is what populate_registries returned.
PopulateRegistries ==
    /\ pc = "load"
    /\ loaded' = populate_registries(tools_data)
    /\ sub_controllers_registry' = [d \in DOMAIN loaded'.registry |-> ToolList]
    /\ pc' = "loaded"
    /\ UNCHANGED <<task_sub_controllers, responses, queries, queryState,
                   max_feedback_loops, plugins, llm_attempts, failed_call, promoters,
                   tools_data>>

NextLoad == PopulateRegistries

SpecLoad == InitLoad /\ [][NextLoad]_vars

----------------------------------------------------------------------------
(* Properties of the refinement loop *)

InLoop == pc \in {"handle", "verify", "feedback"}

StatusOf(r) == IF r \in DOMAIN task_status_board THEN task_status_board[r] ELSE "absent"

\* The text, case-insensitively, carries the convergence token.
CarriesSentinel(text) ==
    \E i \in 1..(Len(text) - 8) : \A k \in 1..9 : LowerChar(text[i + k - 1]) = ConvergedText[k]

\* The verifier's answer is the token "true", case-insensitively.
ReportsPass(text) == Len(text) = 4 /\ \A i \in 1..4 : LowerChar(text[i]) = TrueText[i]

\* C1: in every run of execute_with_feedback the feedback history holds at most
\* max_feedback_loops entries and handle_task is called at most
\* max_feedback_loops times; when max_feedback_loops iterations have finished
\* without a pass the role's status is Failed to Converge and the value
\* returned is the last result the provider produced.
C1_LoopBounded ==
    /\ Len(feedback_list) <= max_feedback_loops
    /\ handle_calls <= max_feedback_loops
    /\ (pc = "exec_return" /\ Len(feedback_list) = max_feedback_loops)
         => /\ StatusOf(role) = FailedToConverge
            /\ ret = result
            /\ handle_calls = max_feedback_loops

C1_Witness ==
    /\ pc = "exec_return"
    /\ max_feedback_loops >= 2
    /\ Len(feedback_list) = max_feedback_loops
    /\ \A i \in 1..Len(feedback_list) : ~CarriesSentinel(feedback_list[i])
    /\ StatusOf(role) = FailedToConverge
    /\ role = "Weather"

\* C2: the loop never goes on once a feedback text carrying the convergence
\* sentinel is in the history; the run returns on that iteration, before the
\* bound if need be, with status Failed to Converge and the last result.
C2_SentinelStops ==
    /\ InLoop => \A i \in 1..Len(feedback_list) : ~CarriesSentinel(feedback_list[i])
    /\ (pc = "exec_return" /\ feedback_list # <<>>
          /\ CarriesSentinel(feedback_list[Len(feedback_list)]))
         => /\ StatusOf(role) = FailedToConverge
            /\ ret = result
            /\ handle_calls = Len(feedback_list)
            /\ \A i \in 1..(Len(feedback_list) - 1) : ~CarriesSentinel(feedback_list[i])

C2_Witness ==
    /\ pc = "exec_return"
    /\ max_feedback_loops = 3
    /\ Len(feedback_list) = 2
    /\ feedback_list[2] = <<"C","o","n","v","e","r","g","e","d","!">>
    /\ StatusOf(role) = FailedToConverge
    /\ ret = result

\* C3: the first pass of the verifier ends the run: the role is Completed, the
\* verified result is the one returned, and neither feedback nor the provider is
\* asked again; and a run ends Completed only on a pass for the result it returns.
C3_PassCompletes ==
    /\ (pc = "feedback") => ~ReportsPass(verdict)
    /\ (pc = "handle") => verdict = <<>>
    /\ (pc = "exec_return" /\ ReportsPass(verdict))
         => /\ StatusOf(role) = Completed
            /\ ret = result
            /\ handle_calls = Len(feedback_list) + 1
    /\ (pc = "exec_return" /\ StatusOf(role) = Completed)
         => ReportsPass(verdict) /\ ret = result

C3_Witness ==
    /\ pc = "exec_return"
    /\ verdict = <<"T","r","u","e">>
    /\ handle_calls = 2
    /\ Len(feedback_list) = 1
    /\ StatusOf(role) = Completed
    /\ ret = result

----------------------------------------------------------------------------
(* Properties of decompose_query (under SpecDecompose) *)

\* The record has the shape 'domain: score: subtask' with an integer score.
WellFormed(line) == Len(line) >= 3 /\ IntParses(line[2])

AllWellFormed(lines) == \A i \in 1..Len(lines) : WellFormed(lines[i])

\* The domain the specification binds a well-formed record to.
Owner(line) == IF IntValue(line[2]) >= 8 THEN line[1] ELSE "General"

Decomposed == pc = "route" /\ queries = 1

\* C4: for every well-formed record with a score in 0..10, once the record has
\* been read its subtask is bound to the named domain when the score is at
\* least 8 and to "General" when it is below 8.
C4_ScoreBinding ==
    /\ \A k \in 1..Len(response) :
         (AllWellFormed(SubSeq(response, 1, k)) /\ IntValue(response[k][2]) \in 0..10)
           => LET bound == decompose_query(SubSeq(response, 1, k)).tasks
                  line == response[k]
                  score == IntValue(line[2])
              IN  /\ score >= 8 =>
                        DictHas(bound, line[1]) /\ DictGet(bound, line[1]) = LineTask(line)
                  /\ score < 8 =>
                        DictHas(bound, "General") /\ DictGet(bound, "General") = LineTask(line)
    /\ (Decomposed /\ response # <<>>)
         => /\ DictHas(tasks, Owner(response[Len(response)]))
            /\ DictGet(tasks, Owner(response[Len(response)]))
                 = LineTask(response[Len(response)])
            /\ StatusOf(Owner(response[Len(response)])) = Pending

C4_Witness ==
    /\ Decomposed
    /\ response = << <<"Weather", <<"8">>, "t1">>, <<"Translation", <<"7">>, "t2">> >>
    /\ tasks = << <<"Weather", <<"t1">> >>, <<"General", <<"t2">> >> >>

\* C5: for an answer made only of well-formed records the working set has one
\* (domain, subtask) entry per record, in the order of the answer.
C5_EveryRecordOwned ==
    (Decomposed /\ AllWellFormed(response))
      => /\ Len(tasks) = Len(response)
         /\ \A i \in 1..Len(response) :
              tasks[i] = <<Owner(response[i]), LineTask(response[i])>>

\* C6: a malformed record is dropped: process_query does not raise, and the
\* working set is the one the well-formed records of the answer give.
C6_MalformedDropped ==
    (queries >= 1)
      => /\ pc = "route"
         /\ error = "none"
         /\ tasks = decompose_query(SelectSeq(response, WellFormed)).tasks

----------------------------------------------------------------------------
(* Properties of the router and of promotion (under Spec) *)

\* The General provider has answered for a named domain absent from the registry.
GscReturned == pc = "exec_return" /\ site = "gsc" /\ CurRole # "General"

\* C7: when the domain is absent from the registry and the run on the General
\* provider ends Failed to Converge, the router asks verify_creation next and
\* does not record the General provider's output for the domain.
C7_FailedGeneralAsksCreation ==
    [][(GscReturned /\ StatusOf("General") = FailedToConverge)
         => (pc' = "verify_creation" /\ responses' = responses)]_vars

\* C8: when the domain is absent from the registry and the General provider's
\* output passes verification, that output is recorded under the original domain.
C8_VerifiedGeneralKeepsDomain ==
    [][(GscReturned /\ StatusOf("General") = Completed)
         => (DictHas(responses', CurRole) /\ DictGet(responses', CurRole) = ret)]_vars

\* C9: when reassign_task's answer is no domain of the registry the router
\* goes on to synthesis for the original domain; it dispatches neither to a
\* provider that does not exist nor again to General.
C9_ReassignFailsClosed ==
    [][(pc = "reassign")
         => \/ pc' = "create"
            \/ (site' = "reassigned" /\ role' \in DOMAIN sub_controllers_registry)]_vars

\* C10: a domain enters the persistent registry only in store_persistent_data,
\* for a task that ended Completed and whose result carries the success marker.
C10_PromotionVerified ==
    [][\A d \in (DOMAIN sub_controllers_registry') \ (DOMAIN sub_controllers_registry) :
         /\ pc = "aggregate"
         /\ DictHas(responses, d)
         /\ HasSuccessMarker(DictGet(responses, d))
         /\ StatusOf(d) = Completed]_vars

----------------------------------------------------------------------------
(* Properties of promotion (under SpecStore) *)

\* C11: promotion is idempotent: a domain already in the persistent registry
\* keeps its descriptor unchanged, and promoting the same results a second time
\* leaves the registry as the first promotion left it.
C11_PromotionIdempotent ==
    [][/\ \A d \in DOMAIN sub_controllers_registry :
            /\ d \in DOMAIN sub_controllers_registry'
            /\ sub_controllers_registry'[d] = sub_controllers_registry[d]
       /\ (queries >= 1) => (sub_controllers_registry' = sub_controllers_registry)]_vars

C11_Witness ==
    /\ pc = "stored"
    /\ queries = 2
    /\ responses = << <<"Translation", <<"S","u","c","c","e","s","s">> >>,
                      <<"Weather", <<"S","u","c","c","e","s","s">> >> >>
    /\ task_sub_controllers = [Weather |-> DynamicDescriptor, Translation |-> DynamicDescriptor]
    /\ sub_controllers_registry = [Weather |-> ToolList, Translation |-> DynamicDescriptor]

----------------------------------------------------------------------------
(* Properties of the two registries *)

\* C12: create_new_sc registers the new domain in the working copy at once and
\* leaves the persistent registry as it was: after the step the domain is a key
\* of the working copy and the persistent registry is unchanged.
C12_CreationIsLocal ==
    [][(pc = "create" /\ pc' = "route")
         => /\ tasks[idx][1] \in DOMAIN task_sub_controllers'
            /\ sub_controllers_registry' = sub_controllers_registry
            /\ \A d \in DOMAIN task_sub_controllers :
                   /\ d \in DOMAIN task_sub_controllers'
                   /\ (d # tasks[idx][1]) => task_sub_controllers'[d] = task_sub_controllers[d]]_vars

C12_Witness ==
    /\ pc = "route"
    /\ idx = 3
    /\ DictHas(responses, "Translation")
    /\ "Translation" \in DOMAIN task_sub_controllers
    /\ "Translation" \notin DOMAIN sub_controllers_registry
    /\ task_sub_controllers["Translation"] = DynamicDescriptor

\* C15: the working copy is per query: every query starts from a clone of the
\* persistent registry, so a domain synthesized during an earlier query and
\* not promoted is not in the working copy a later query uses.
C15_WorkingCopyPerQuery ==
    (pc = "route" /\ idx = 1) => task_sub_controllers = sub_controllers_registry

\* C16: loading never crashes, and a failed load (unreadable source, or a
\* malformed record anywhere in the list) returns an empty registry: no tool, and
\* no domain other than the reserved General domain, which then holds no tool.
C16_FailedLoadIsEmpty ==
    (pc = "loaded" /\ loaded.failed)
        => /\ loaded.toolset = EmptyMap
           /\ DOMAIN loaded.registry \subseteq {"General"}
           /\ \A d \in DOMAIN loaded.registry : loaded.registry[d] = <<>>
           /\ DOMAIN sub_controllers_registry \subseteq {"General"}

----------------------------------------------------------------------------
(* Properties of Oracle failures (under SpecOracle) *)

\* C13: process_query returns a non-empty answer or raises the fatal
\* decomposition error; an Oracle failure in a nested call (provider, verifier,
\* feedback, creation check, reassignment, synthesis) never leaves process_query
\* as an exception.
C13_NestedFailureContained ==
    /\ (pc = "raised" /\ error \in OracleFailures) => failed_call = "decompose_query"
    /\ (pc = "idle" /\ queries >= 1) => final_response # <<>>

\* C18: an Oracle call that ends in a transport failure has attempted the service
\* twice (one retry); a service error is never propagated as the library raised
\* it, but as OracleError after one attempt.
C18_RetryPolicy ==
    /\ (pc = "raised" /\ error = TransportError) => llm_attempts = 2
    /\ (pc = "raised" /\ failed_call # "none" /\ error \notin {TransportError, "none"})
          => (error = "OracleError" /\ llm_attempts = 1)

----------------------------------------------------------------------------
(* Properties of concurrent promotion (under SpecPromote) *)

\* C14: when two queries promote concurrently, under every interleaving of
\* their check and insert steps a domain holds one descriptor, the one inserted
\* first: an entry of the registry never changes, and no promotion writes a
\* domain that is already present.
C14_FirstInsertKept ==
    [][/\ \A d \in DOMAIN sub_controllers_registry :
            /\ d \in DOMAIN sub_controllers_registry'
            /\ sub_controllers_registry'[d] = sub_controllers_registry[d]
       /\ \A t \in Promoters :
            LET d == promoters[t].items[promoters[t].i][1]
            IN  (/\ promoters[t].pc = "insert"
                 /\ promoters'[t].pc \in {"check", "done"}
                 /\ promoters[t].working[d] = DynamicDescriptor)
                   => d \notin DOMAIN sub_controllers_registry]_vars

----------------------------------------------------------------------------
(* Properties of plug-ins (under SpecPlugins) *)

\* C17: a subtask whose domain is the name of a registered plug-in is dispatched
\* directly, as a registry-backed domain is: it never goes to the General
\* provider first, nor to the creation check, reassignment or synthesis.
C17_PluginDispatchedDirectly ==
    (pc \notin {"idle", "raised", "route", "aggregate"} /\ tasks[idx][1] \in plugins)
        => (site = "direct" /\ role = tasks[idx][1])

----------------------------------------------------------------------------
(* Properties of the end of a query *)

Terminal == {Completed, FailedToConverge}

\* C19: when process_query returns, every task decompose_query put on the board
\* as Pending has a terminal status under its own key, whichever provider
\* handled it.
C19_EveryTaskTerminal ==
    (pc = "aggregate" /\ store_persistent_data(responses).ok)
        => \A k \in DictKeys(tasks) : StatusOf(k) \in Terminal

\* C20: the promotion step never fails: every key of the per-domain results
\* whose result carries the success marker and which the persistent registry
\* lacks has a descriptor in the working copy.
C20_PromotionNeverFails ==
    (pc = "aggregate")
        => \A i \in 1..Len(responses) :
              (/\ HasSuccessMarker(responses[i][2])
               /\ responses[i][1] \notin DOMAIN sub_controllers_registry)
                 => responses[i][1] \in DOMAIN task_sub_controllers

====
